---- MODULE Spec2Model ----
(***************************************************************************)
(* Model of api/prediction_server.py: the FastAPI prediction server with   *)
(* its online drift monitor (detect_data_drift, update_feature_statistics) *)
(* and its Prometheus telemetry.                                           *)
(*                                                                         *)
(* Numbers.  The program computes on Python floats.  The model computes on *)
(* exact rationals <<num, den>> (den > 0, lowest terms), so that Welford's *)
(* recurrences are evaluated exactly as written in the code, without the   *)
(* rounding of the float format.  The field 'std' of the code is a square  *)
(* root; the model stores its square in the field std2 and evaluates the   *)
(* comparison  abs(value - mean) > 3 * std  on the squares, which is the   *)
(* same comparison because std >= 0.                                       *)
(***************************************************************************)
EXTENDS Integers, Sequences, FiniteSets, Bags, TLC

VARIABLES
    model,                  \* global model: None or the loaded predictor
    feature_names,          \* global feature_names: None or a sequence of names
    model_version,          \* global model_version
    feature_statistics,     \* global feature_statistics: None or name -> stats
    REQUEST_COUNT,          \* Counter, label status
    INFERENCE_LATENCY,      \* Histogram: number of observations
    DATA_DRIFT_DETECTIONS,  \* Counter, label feature
    DRIFT_RATIO,            \* Histogram: bag of the observed ratios
    inflight,               \* requests received by the server, handler not yet run
    response,               \* the last response sent (or the last direct call's result)
    started,                \* whether the startup event has run load_model
    last,                   \* history: the last handler run or direct call
    nreq,                   \* number of POST /predict requests and direct calls so far
    seen,                   \* history: per feature, <<n, sum, sum of squares>> of the
                            \* values folded into the store
    script                  \* position in the scripted scenario (SpecScenario)

vars == <<model, feature_names, model_version, feature_statistics, REQUEST_COUNT,
          INFERENCE_LATENCY, DATA_DRIFT_DETECTIONS, DRIFT_RATIO, inflight,
          response, started, last, nreq, seen, script>>

-----------------------------------------------------------------------------
(* Bounds of the model.                                                    *)

MaxRequests == 3
MaxInFlight == 2
MaxCalls == 3
Repeats == 50

\* Python's None.
None == [none |-> TRUE]

\* feature_names = None.  The code reads feature_names only through its
\* truthiness (not feature_names, if feature_names), which None and the empty
\* list share: the model writes both as the empty sequence.
NoNames == <<>>

\* The feature values the requests carry.
Values == {0, 10}

\* The names a request's feature map may hold; "extra" is expected by no model.
Keys == {"temp", "humidity", "extra"}

\* The names a loaded model may expect.
ModelFeatures == {"temp", "humidity", "feature_0"}

\* Every feature map: a function from a set of names to values.
FeatureMaps == UNION {[K -> Values] : K \in SUBSET Keys}

-----------------------------------------------------------------------------
(* Exact rational arithmetic.                                              *)

Abs(x) == IF x < 0 THEN -x ELSE x

RECURSIVE Gcd(_, _)
Gcd(a, b) == IF b = 0 THEN a ELSE Gcd(b, a % b)

Rat(n, d) ==
    LET s == IF d < 0 THEN -1 ELSE 1
        g == Gcd(Abs(n), Abs(d))
    IN  <<(s * n) \div g, (s * d) \div g>>

RInt(n) == <<n, 1>>
RAdd(a, b) ==
    LET g == Gcd(a[2], b[2])
    IN  Rat(a[1] * (b[2] \div g) + b[1] * (a[2] \div g), a[2] * (b[2] \div g))
RNeg(a) == <<-a[1], a[2]>>
RSub(a, b) == RAdd(a, RNeg(b))
RMul(a, b) ==
    LET g1 == Gcd(Abs(a[1]), b[2])
        g2 == Gcd(Abs(b[1]), a[2])
    IN  Rat((a[1] \div g1) * (b[1] \div g2), (a[2] \div g2) * (b[2] \div g1))
RDivInt(a, n) == RMul(a, <<1, n>>)
RLt(a, b) == a[1] * b[2] < b[1] * a[2]
RZero == RInt(0)
ROne == RInt(1)

-----------------------------------------------------------------------------
(* The drift monitor: update_feature_statistics and detect_data_drift as   *)
(* functions of the globals they read and write.                           *)

SigmaThreshold == 3

\* not feature_names
NamesFalsy(names) == names = NoNames

\* not feature_statistics: None and the empty dict are falsy.
StoreFalsy(store) == store = None \/ DOMAIN store = {}

Range(s) == {s[i] : i \in DOMAIN s}

\* The entry update_feature_statistics creates for every feature.
ZeroStats == [mean |-> RZero, std2 |-> ROne, count |-> 0, sum |-> RZero, sum_sq |-> RZero]

\* Mutant of StdSquared: the population variance sum_sq / n, for every n.
StdSquaredPopulation(n, sum_sq) == RDivInt(sum_sq, n)

\* stats['std'] after the update, as its square: sum_sq / (n - 1), or 1.0.
StdSquared(n, sum_sq) == IF n > 1 THEN RDivInt(sum_sq, n - 1) ELSE ROne

\* Mutant of WelfordStep: the squared deviation from the old mean, delta * delta,
\* is added to sum_sq in place of delta * delta2.
WelfordStepOldMean(stats, value) ==
    LET n      == stats.count + 1
        delta  == RSub(RInt(value), stats.mean)
        mean   == RAdd(stats.mean, RDivInt(delta, n))
        sum_sq == RAdd(stats.sum_sq, RMul(delta, delta))
    IN  [stats EXCEPT !.count = n, !.mean = mean, !.sum_sq = sum_sq,
                      !.std2 = StdSquared(n, sum_sq)]

\* One pass of the loop body of update_feature_statistics for one feature.
WelfordStep(stats, value) ==
    LET n      == stats.count + 1
        delta  == RSub(RInt(value), stats.mean)
        mean   == RAdd(stats.mean, RDivInt(delta, n))
        delta2 == RSub(RInt(value), mean)
        sum_sq == RAdd(stats.sum_sq, RMul(delta, delta2))
    IN  [stats EXCEPT !.count = n, !.mean = mean, !.sum_sq = sum_sq,
                      !.std2 = StdSquared(n, sum_sq)]

\* The store the first call creates: one zeroed entry per expected feature.
FreshStore(names) == [f \in Range(names) |-> ZeroStats]

\* Mutant of update_feature_statistics: the loop runs over the keys of
\* features_dict, creating an entry for a key the store does not hold.
update_feature_statistics_any_key(names, store, features_dict) ==
    IF NamesFalsy(names) THEN store
    ELSE LET created == IF store = None THEN FreshStore(names) ELSE store
         IN  [f \in DOMAIN created \cup DOMAIN features_dict |->
                 IF f \in DOMAIN features_dict
                 THEN WelfordStep(IF f \in DOMAIN created THEN created[f] ELSE ZeroStats,
                                  features_dict[f])
                 ELSE created[f]]

\* update_feature_statistics(features_dict): the new value of feature_statistics.
update_feature_statistics(names, store, features_dict) ==
    IF NamesFalsy(names) THEN store
    ELSE LET created == IF store = None THEN FreshStore(names) ELSE store
         IN  [f \in DOMAIN created |->
                 IF f \in Range(names) /\ f \in DOMAIN features_dict
                 THEN WelfordStep(created[f], features_dict[f])
                 ELSE created[f]]

\* Mutant of OutOfDistribution: the test without std > 0.
OutOfDistributionAnyStd(stats, value) ==
    LET dev == RSub(RInt(value), stats.mean)
    IN  RLt(RMul(RInt(SigmaThreshold * SigmaThreshold), stats.std2), RMul(dev, dev))

\* The test of detect_data_drift on one feature:
\* std > 0 and abs(value - mean) > 3 * std.
OutOfDistribution(stats, value) ==
    LET dev == RSub(RInt(value), stats.mean)
    IN  /\ RLt(RZero, stats.std2)
        /\ RLt(RMul(RInt(SigmaThreshold * SigmaThreshold), stats.std2), RMul(dev, dev))

\* Mutant of NoDrift: the cold start reports every feature as drifting.
NoDriftFlagged == [drift_detected |-> TRUE, drift_features |-> <<>>, drift_ratio |-> ROne]

\* return False, [], 0.0
NoDrift == [drift_detected |-> FALSE, drift_features |-> <<>>, drift_ratio |-> RZero]

\* detect_data_drift(features_dict): the tuple it returns.
detect_data_drift(names, store, features_dict) ==
    IF NamesFalsy(names) \/ StoreFalsy(store) THEN NoDrift
    ELSE LET Drifts(f) == /\ f \in DOMAIN features_dict
                          /\ f \in DOMAIN store
                          /\ OutOfDistribution(store[f], features_dict[f])
             drift_features == SelectSeq(names, Drifts)
             total_features == Len(names)
         IN  [drift_detected |-> Len(drift_features) > 0,
              drift_features |-> drift_features,
              drift_ratio    |-> IF total_features > 0
                                 THEN Rat(Len(drift_features), total_features)
                                 ELSE RZero]

\* DATA_DRIFT_DETECTIONS after detect_data_drift appended drift_features:
\* one .inc() per appended name.
DriftCounted(counter, drift_features) ==
    [f \in DOMAIN counter |->
        counter[f] + Cardinality({i \in DOMAIN drift_features : drift_features[i] = f})]

-----------------------------------------------------------------------------
(* The server: globals, metrics, startup and the endpoints.                *)

\* The request bodies: one that validates as a PredictionRequest carries a feature
\* map; any other body is answered 422 by the framework before predict() runs.
Bodies == {[valid |-> TRUE, features |-> m] : m \in FeatureMaps}
              \cup {[valid |-> FALSE, features |-> <<>>]}

\* The deserialized predictor: opaque.
Predictor == [predictor |-> TRUE]

\* model_version of a loaded model: "<version> (Stage: <stage>)".
LoadedVersion == "1 (Stage: Production)"

\* What load_model can find: the failures of its try block, and the loaded
\* predictor with feature_names_in_, with n_features_in_ only, or with neither.
\* A failure after_assignment is an exception raised once model, model_version
\* and feature_names have been assigned.
LoadFailures == {"not_registered", "no_versions", "load_error", "after_assignment"}

LoadOutcomes ==
    {[ok |-> FALSE, at |-> a, names |-> NoNames] :
         a \in LoadFailures \ {"after_assignment"}}
    \cup {[ok |-> o, at |-> IF o THEN "loaded" ELSE "after_assignment", names |-> n] :
         o \in BOOLEAN, n \in {<<"temp", "humidity">>, <<"feature_0">>, NoNames}}

NoResponse == [kind |-> "none", status |-> 0, detail |-> {}, model_loaded |-> FALSE,
               model_version |-> "N/A"]
NoLast == [op |-> "none", features |-> <<>>, verdict |-> None, others |-> 0]
NoSeen == [f \in ModelFeatures |-> <<0, 0, 0>>]

InitGlobals ==
    /\ model = None
    /\ feature_names = NoNames
    /\ model_version = "N/A"
    /\ feature_statistics = None
    /\ REQUEST_COUNT = [success |-> 0, error |-> 0]
    /\ INFERENCE_LATENCY = 0
    /\ DATA_DRIFT_DETECTIONS = [f \in ModelFeatures |-> 0]
    /\ DRIFT_RATIO = EmptyBag
    /\ inflight = EmptyBag
    /\ response = NoResponse
    /\ started = FALSE
    /\ last = NoLast
    /\ nreq = 0
    /\ seen = NoSeen

Init == InitGlobals /\ script = None

metrics == <<REQUEST_COUNT, INFERENCE_LATENCY, DATA_DRIFT_DETECTIONS, DRIFT_RATIO>>
globals == <<model, feature_names, model_version, feature_statistics>>

\* The globals as the try block of load_model leaves them, and whether it raised:
\* a failure before the predictor is deserialized has assigned nothing yet.
TryBlock(outcome) ==
    IF outcome.at \in LoadFailures \ {"after_assignment"}
    THEN [model |-> model, feature_names |-> feature_names,
          model_version |-> model_version, feature_statistics |-> feature_statistics,
          raised |-> TRUE]
    ELSE [model |-> Predictor, feature_names |-> outcome.names,
          model_version |-> LoadedVersion, feature_statistics |-> None,
          raised |-> ~outcome.ok]

\* Mutant of ExceptBlock: the handler resets model and leaves the other globals.
ExceptBlockModelOnly(tried) ==
    IF tried.raised THEN [tried EXCEPT !.model = None] ELSE tried

\* The except block of load_model: all four globals are reset.
ExceptBlock(tried) ==
    IF tried.raised
    THEN [tried EXCEPT !.model = None, !.feature_names = NoNames,
                       !.model_version = "N/A", !.feature_statistics = None]
    ELSE tried

\* load_model(): the globals it leaves.
load_model(outcome) ==
    LET left == ExceptBlock(TryBlock(outcome))
    IN  /\ model' = left.model
        /\ feature_names' = left.feature_names
        /\ model_version' = left.model_version
        /\ feature_statistics' = left.feature_statistics

\* The startup event: load_model, once.
startup ==
    /\ ~started
    /\ started' = TRUE
    /\ \E outcome \in LoadOutcomes :
          /\ load_model(outcome)
          /\ last' = [NoLast EXCEPT !.op = outcome.at]
    /\ UNCHANGED <<metrics, inflight, response, nreq, seen, script>>

\* GET /
root ==
    /\ response' = [NoResponse EXCEPT !.kind = "root", !.status = 200,
                        !.model_loaded = (model # None), !.model_version = model_version]
    /\ UNCHANGED <<globals, metrics, inflight, started, last, nreq, seen, script>>

\* Mutant of HealthStatus: healthy whether or not a model is loaded.
HealthStatusAlwaysUp(m) == 200

HealthStatus(m) == IF m = None THEN 503 ELSE 200

\* GET /health
health ==
    /\ response' = [NoResponse EXCEPT !.kind = "health", !.status = HealthStatus(model),
                        !.model_loaded = (model # None),
                        !.model_version = IF model = None THEN "N/A" ELSE model_version]
    /\ UNCHANGED <<globals, metrics, inflight, started, last, nreq, seen, script>>

\* Mutant of MissingFeatures: only the first expected feature is looked for.
MissingFeaturesFirstOnly(names, features) ==
    IF NamesFalsy(names) THEN {} ELSE {names[1]} \ DOMAIN features

\* set(feature_names) - set(features_df.columns), when feature_names is truthy.
MissingFeatures(names, features) ==
    IF NamesFalsy(names) THEN {} ELSE Range(names) \ DOMAIN features

\* REQUEST_COUNT.labels(status=...).inc()
Inc(counter, status) == [counter EXCEPT ![status] = @ + 1]

\* The history of the values folded into the store by one update.
Seen(names, features, old) ==
    [f \in DOMAIN old |->
        IF ~NamesFalsy(names) /\ f \in Range(names) /\ f \in DOMAIN features
        THEN <<old[f][1] + 1, old[f][2] + features[f], old[f][3] + features[f] * features[f]>>
        ELSE old[f]]

\* Mutant of ClassifiedStore: detect_data_drift is called before
\* update_feature_statistics and reads the store the request found.
ClassifiedStoreBefore(before, after) == before

\* The store detect_data_drift reads in predict(): update_feature_statistics
\* is called first, so it is the store that call has just written.
ClassifiedStore(before, after) == after

\* The body of predict() for one request; raises: whether model.predict raises;
\* others: the number of other requests in flight while it runs.
PredictHandler(body, raises, others) ==
    LET features == body.features
        missing  == MissingFeatures(feature_names, features)
        store    == update_feature_statistics(feature_names, feature_statistics, features)
        verdict  == detect_data_drift(feature_names,
                                      ClassifiedStore(feature_statistics, store), features)
    IN  /\ nreq' = nreq + 1
        /\ UNCHANGED <<model, feature_names, model_version, started>>
        /\ IF ~body.valid
           THEN /\ response' = [NoResponse EXCEPT !.kind = "predict", !.status = 422]
                /\ last' = [NoLast EXCEPT !.op = "rejected", !.others = others]
                /\ UNCHANGED <<feature_statistics, metrics, seen>>
           ELSE IF model = None
           THEN /\ REQUEST_COUNT' = Inc(REQUEST_COUNT, "error")
                /\ response' = [NoResponse EXCEPT !.kind = "predict", !.status = 503]
                /\ last' = [NoLast EXCEPT !.op = "predict", !.features = features,
                                       !.others = others]
                /\ UNCHANGED <<feature_statistics, INFERENCE_LATENCY,
                               DATA_DRIFT_DETECTIONS, DRIFT_RATIO, seen>>
           ELSE IF missing # {}
           THEN /\ response' = [NoResponse EXCEPT !.kind = "predict", !.status = 400,
                                    !.detail = missing, !.model_loaded = TRUE]
                /\ last' = [NoLast EXCEPT !.op = "predict", !.features = features,
                                       !.others = others]
                /\ UNCHANGED <<feature_statistics, metrics, seen>>
           ELSE /\ feature_statistics' = store
                /\ seen' = Seen(feature_names, features, seen)
                /\ DATA_DRIFT_DETECTIONS' =
                       DriftCounted(DATA_DRIFT_DETECTIONS, verdict.drift_features)
                /\ DRIFT_RATIO' = DRIFT_RATIO (+) SetToBag({verdict.drift_ratio})
                /\ last' = [op |-> "predict", features |-> features, verdict |-> verdict,
                            others |-> others]
                /\ IF raises
                   THEN /\ REQUEST_COUNT' = Inc(REQUEST_COUNT, "error")
                        /\ UNCHANGED INFERENCE_LATENCY
                        /\ response' = [NoResponse EXCEPT !.kind = "predict",
                                            !.status = 500, !.model_loaded = TRUE]
                   ELSE /\ INFERENCE_LATENCY' = INFERENCE_LATENCY + 1
                        /\ REQUEST_COUNT' = Inc(REQUEST_COUNT, "success")
                        /\ response' = [NoResponse EXCEPT !.kind = "predict",
                                            !.status = 200, !.model_loaded = TRUE,
                                            !.model_version = model_version]

\* POST /predict, received and handled: predict() has no await, so the event
\* loop runs it from its first line to its last without running anything else.
predict ==
    /\ nreq < MaxRequests
    /\ inflight = EmptyBag
    /\ \E body \in Bodies, raises \in BOOLEAN : PredictHandler(body, raises, 0)
    /\ UNCHANGED <<inflight, script>>

Next == startup \/ root \/ health \/ predict

Spec == Init /\ [][Next]_vars

-----------------------------------------------------------------------------
(* Concurrent requests.  The server accepts a request and schedules its    *)
(* handler on the event loop; the handlers of the accepted requests run in *)
(* any order, each one from its first line to its last (predict() is an    *)
(* async def without an await).                                            *)

\* The bodies of the concurrent clients: the complete maps of a model that
\* expects temp and humidity, and one map without humidity.
ConcurrentBodies ==
    {[valid |-> TRUE, features |-> m] :
        m \in [{"temp", "humidity"} -> Values] \cup [{"temp"} -> {0}]}

\* The server accepts a POST /predict; its handler has not run yet.
receive ==
    /\ nreq + BagCardinality(inflight) < MaxRequests
    /\ BagCardinality(inflight) < MaxInFlight
    /\ \E body \in ConcurrentBodies : inflight' = inflight (+) SetToBag({body})
    /\ UNCHANGED <<globals, metrics, response, started, last, nreq, seen, script>>

\* The event loop runs the handler of one accepted request.
dispatch ==
    /\ \E body \in BagToSet(inflight), raises \in BOOLEAN :
          /\ PredictHandler(body, raises, BagCardinality(inflight) - 1)
          /\ inflight' = inflight (-) SetToBag({body})
    /\ UNCHANGED script

NextConcurrent == startup \/ receive \/ dispatch

SpecConcurrent == Init /\ [][NextConcurrent]_vars

-----------------------------------------------------------------------------
(* The drift monitor called directly, as a unit test of the module calls   *)
(* it: update_feature_statistics and detect_data_drift on the globals,     *)
(* with any feature map.                                                   *)

\* The feature maps of the direct calls: negative values too, and values whose
\* means are not integers.
MonitorValues == {-3, 0, 10}

MonitorMaps ==
    {m \in UNION {[K -> MonitorValues] : K \in SUBSET Keys} :
        "extra" \in DOMAIN m => m["extra"] = 10}

update_call ==
    /\ nreq < MaxCalls
    /\ nreq' = nreq + 1
    /\ \E features \in MonitorMaps :
          /\ feature_statistics' =
                 update_feature_statistics(feature_names, feature_statistics, features)
          /\ seen' = Seen(feature_names, features, seen)
          /\ last' = [NoLast EXCEPT !.op = "update", !.features = features]
    /\ UNCHANGED <<model, feature_names, model_version, metrics, inflight, response,
                   started, script>>

\* Mutant of detect_call: the call also folds the values into the store.
detect_call_folding ==
    /\ nreq < MaxCalls
    /\ nreq' = nreq + 1
    /\ \E features \in MonitorMaps :
          LET verdict == detect_data_drift(feature_names, feature_statistics, features)
          IN  /\ DATA_DRIFT_DETECTIONS' =
                     DriftCounted(DATA_DRIFT_DETECTIONS, verdict.drift_features)
              /\ feature_statistics' =
                     update_feature_statistics(feature_names, feature_statistics, features)
              /\ last' = [NoLast EXCEPT !.op = "detect", !.features = features,
                                        !.verdict = verdict]
    /\ UNCHANGED <<model, feature_names, model_version, REQUEST_COUNT, INFERENCE_LATENCY,
                   DRIFT_RATIO, inflight, response, started, seen, script>>

detect_call ==
    /\ nreq < MaxCalls
    /\ nreq' = nreq + 1
    /\ \E features \in MonitorMaps :
          LET verdict == detect_data_drift(feature_names, feature_statistics, features)
          IN  /\ DATA_DRIFT_DETECTIONS' =
                     DriftCounted(DATA_DRIFT_DETECTIONS, verdict.drift_features)
              /\ last' = [NoLast EXCEPT !.op = "detect", !.features = features,
                                        !.verdict = verdict]
    /\ UNCHANGED <<globals, REQUEST_COUNT, INFERENCE_LATENCY, DRIFT_RATIO, inflight,
                   response, started, seen, script>>

NextMonitor == startup \/ update_call \/ detect_call

SpecMonitor == Init /\ [][NextMonitor]_vars

-----------------------------------------------------------------------------
(* The scripted scenario: against a loaded model with known features, the  *)
(* same complete feature map Repeats times, then one map that differs from *)
(* it in one feature.                                                      *)

Scripts(names) ==
    {[base |-> b, feature |-> f, value |-> v, step |-> 0] :
        b \in [Range(names) -> Values], f \in Range(names),
        v \in Values \cup {-100, 100}}

scenario_begin ==
    /\ script = None
    /\ model # None
    /\ ~NamesFalsy(feature_names)
    /\ \E sc \in Scripts(feature_names) :
          /\ sc.value # sc.base[sc.feature]
          /\ script' = sc
    /\ UNCHANGED <<globals, metrics, inflight, response, started, last, nreq, seen>>

scenario_post ==
    /\ script # None
    /\ script.step < Repeats
    /\ script' = [script EXCEPT !.step = @ + 1]
    /\ \E raises \in BOOLEAN :
          PredictHandler([valid |-> TRUE, features |-> script.base], raises, 0)
    /\ UNCHANGED inflight

scenario_divergent ==
    /\ script # None
    /\ script.step = Repeats
    /\ script' = [script EXCEPT !.step = @ + 1]
    /\ \E raises \in BOOLEAN :
          PredictHandler([valid |-> TRUE,
                          features |-> [script.base EXCEPT ![script.feature] = script.value]],
                         raises, 0)
    /\ UNCHANGED inflight

NextScenario == startup \/ scenario_begin \/ scenario_post \/ scenario_divergent

SpecScenario == Init /\ [][NextScenario]_vars


-----------------------------------------------------------------------------
(* The properties checked.                                                 *)

\* A step in which predict() ran on a body that validated as a PredictionRequest.
PredictStep == nreq' = nreq + 1 /\ last'.op = "predict"

\* A step in which detect_data_drift was called directly.
DetectStep == nreq' = nreq + 1 /\ last'.op = "detect"

\* The statistics of the values h = <<n, sum, sum of squares>> computed in one
\* batch: mean = sum / n, sum of squared deviations = sum of squares - sum^2 / n,
\* sample variance = that / (n - 1), and 1.0 in place of it for n = 1.
BatchStats(h) ==
    LET n   == h[1]
        ssd == Rat(n * h[3] - h[2] * h[2], n)
    IN  [mean |-> Rat(h[2], n), std2 |-> IF n > 1 THEN RMul(ssd, <<1, n - 1>>) ELSE ROne,
         count |-> n, sum |-> RZero, sum_sq |-> ssd]

BatchStore == [f \in Range(feature_names) |-> BatchStats(seen[f])]

\* C1: every POST /predict that passes validation classifies against the store as
\* it was before the request: its verdict is the verdict of detect_data_drift on
\* the store the request found.
C1_ClassifiedBeforeUpdate ==
    [][(PredictStep /\ response'.status \in {200, 500})
          => last'.verdict =
                 detect_data_drift(feature_names, feature_statistics, last'.features)]_vars

\* C2: however the handlers of concurrently accepted requests are ordered, the
\* store is the store of a serial execution: every expected feature's count is the
\* number of validated requests, its mean, sum of squared deviations and std are
\* those of the values of these requests, and every verdict was computed on such a
\* store.
C2_SerialStore ==
    ~NamesFalsy(feature_names) =>
        /\ feature_statistics = None
              => \A f \in Range(feature_names) : seen[f][1] = 0
        /\ feature_statistics # None
              => /\ DOMAIN feature_statistics = Range(feature_names)
                 /\ \A f \in Range(feature_names) :
                       /\ seen[f][1] = BagCardinality(DRIFT_RATIO)
                       /\ seen[f][1] >= 1
                       /\ feature_statistics[f] = BatchStats(seen[f])
        /\ (last.op = "predict" /\ last.verdict # None)
              => last.verdict = detect_data_drift(feature_names, BatchStore, last.features)

\* C2 witness: a handler ran while another accepted request was waiting, and two
\* requests with different temperatures have been folded into the store.
C2_Witness ==
    /\ last.op = "predict" /\ last.others >= 1 /\ last.verdict # None
    /\ feature_statistics # None
    /\ feature_statistics["temp"].count = 2
    /\ feature_statistics["temp"].mean = RInt(5)

\* C3: with a model loaded and its features known, a request whose map lacks an
\* expected feature is answered 400 with exactly the missing names, and the store,
\* the drift-ratio histogram and the drift counters are left as they were.
C3_MissingFeaturesRejected ==
    [][(/\ PredictStep
        /\ model # None
        /\ ~NamesFalsy(feature_names)
        /\ Range(feature_names) \ DOMAIN last'.features # {})
          => /\ response'.status = 400
             /\ response'.detail = Range(feature_names) \ DOMAIN last'.features
             /\ UNCHANGED <<feature_statistics, DRIFT_RATIO, DATA_DRIFT_DETECTIONS>>]_vars

\* C3 witness: after a complete request created the store, {"temp": 10} was
\* answered 400 naming humidity.
C3_Witness ==
    /\ response.kind = "predict" /\ response.status = 400
    /\ response.detail = {"humidity"}
    /\ last.features = [k \in {"temp"} |-> 10]
    /\ feature_statistics # None

\* C4 as stated: with no model loaded, GET /health is answered 503 and POST
\* /predict is answered 503 for every request body, the store unchanged.
C4_UnloadedAnyBody ==
    [][/\ (model = None /\ nreq' = nreq + 1 /\ response'.kind = "predict")
             => (response'.status = 503 /\ UNCHANGED feature_statistics)
       /\ (model = None /\ response'.kind = "health" /\ response' # response)
             => response'.status = 503]_vars

\* C4 amended: with no model loaded, GET /health is answered 503 and POST /predict
\* is answered 503 for every body that validates as a PredictionRequest, whatever
\* its feature map; the request changes neither the store nor the drift metrics.
C4_UnloadedValidBody ==
    [][/\ (model = None /\ PredictStep)
             => /\ response'.status = 503
                /\ UNCHANGED <<feature_statistics, DRIFT_RATIO, DATA_DRIFT_DETECTIONS,
                               INFERENCE_LATENCY>>
       /\ (model = None /\ response'.kind = "health" /\ response' # response)
             => response'.status = 503]_vars

\* C4 witness: a complete feature map was answered 503 after a failed load.
C4_Witness ==
    /\ started /\ model = None
    /\ response.kind = "predict" /\ response.status = 503
    /\ DOMAIN last.features = {"temp", "humidity"}
    /\ feature_statistics = None

\* C6: every POST /predict handled increments exactly one request counter and,
\* with a model loaded, records exactly one latency observation.
C6_CountedAndTimed ==
    [][PredictStep
          => /\ REQUEST_COUNT'.success + REQUEST_COUNT'.error
                    = REQUEST_COUNT.success + REQUEST_COUNT.error + 1
             /\ model # None => INFERENCE_LATENCY' = INFERENCE_LATENCY + 1]_vars

\* C5: from an empty store, Repeats posts of one complete map raise no drift
\* counter, and the post that follows, differing in one feature, has the drift
\* ratio 1/N and raises that feature's counter, and no other, by exactly 1.
C5_DivergentAfterRepeats ==
    script # None =>
        /\ script.step <= Repeats
              => \A f \in ModelFeatures : DATA_DRIFT_DETECTIONS[f] = 0
        /\ script.step = Repeats + 1
              => /\ last.verdict.drift_ratio = <<1, Len(feature_names)>>
                 /\ last.verdict.drift_features = <<script.feature>>
                 /\ last.verdict.drift_detected
                 /\ \A f \in ModelFeatures :
                       DATA_DRIFT_DETECTIONS[f] = IF f = script.feature THEN 1 ELSE 0

\* C5 witness: with two expected features, humidity 100 after Repeats posts of
\* humidity 10 gave the ratio 1/2.
C5_Witness ==
    /\ script # None
    /\ script.step = Repeats + 1
    /\ feature_names = <<"temp", "humidity">>
    /\ script.feature = "humidity" /\ script.base["humidity"] = 10 /\ script.value = 100
    /\ last.features["humidity"] = 100
    /\ last.verdict.drift_ratio = <<1, 2>>
    /\ feature_statistics["humidity"].count = Repeats + 1
    /\ DATA_DRIFT_DETECTIONS["humidity"] = 1

\* C7: detect_data_drift on a store that holds nothing returns (False, [], 0.0)
\* for every feature map and increments no drift counter.
C7_ColdStart ==
    [][(DetectStep /\ StoreFalsy(feature_statistics))
          => /\ last'.verdict = [drift_detected |-> FALSE, drift_features |-> <<>>,
                                 drift_ratio |-> <<0, 1>>]
             /\ UNCHANGED DATA_DRIFT_DETECTIONS]_vars

\* C7 witness: with the features known and no store yet, a map with three values
\* was classified.
C7_Witness ==
    /\ last.op = "detect"
    /\ feature_names = <<"temp", "humidity">>
    /\ feature_statistics = None
    /\ last.features = [k \in Keys |-> 10]

\* C8 as stated: a detect_data_drift call changes no state at all: no global and
\* no metric.
C8_DetectChangesNothing ==
    [][DetectStep => UNCHANGED <<globals, metrics>>]_vars

\* C8 amended: a detect_data_drift call leaves the globals (the store among them),
\* the request counters and both histograms unchanged; a second call with the same
\* map right after the first returns the same verdict; the one thing a call changes
\* is DATA_DRIFT_DETECTIONS, raised by 1 for each feature the verdict names.
C8_DetectReadOnlyButCounter ==
    [][DetectStep
          => /\ UNCHANGED <<globals, REQUEST_COUNT, INFERENCE_LATENCY, DRIFT_RATIO>>
             /\ (last.op = "detect" /\ last.features = last'.features)
                   => last'.verdict = last.verdict
             /\ \A f \in ModelFeatures :
                   DATA_DRIFT_DETECTIONS'[f] = DATA_DRIFT_DETECTIONS[f]
                       + (IF f \in Range(last'.verdict.drift_features) THEN 1 ELSE 0)]_vars

\* C8 witness: the same map was classified twice in a row against a store, flagged
\* both times, and the counter of the flagged feature stands at 2.
C8_Witness ==
    /\ last.op = "detect"
    /\ last.verdict.drift_detected
    /\ last.verdict.drift_features = <<"temp">>
    /\ feature_statistics # None
    /\ DATA_DRIFT_DETECTIONS["temp"] = 2

\* C9: the keys of the store are expected features: a name of a feature map that
\* the model does not expect never becomes a key.
C9_StoreKeysExpected ==
    feature_statistics # None =>
        /\ DOMAIN feature_statistics \subseteq Range(feature_names)
        /\ "extra" \notin DOMAIN feature_statistics

\* C9 witness: update_feature_statistics was called with a map holding "extra".
C9_Witness ==
    /\ last.op = "update"
    /\ "extra" \in DOMAIN last.features
    /\ feature_statistics # None
    /\ "temp" \in DOMAIN feature_statistics
    /\ feature_statistics["temp"].count >= 1

\* C10: a feature that exactly one update call contained has count 1 and std 1.0.
C10_FirstUpdate ==
    \A f \in ModelFeatures :
        seen[f][1] = 1 =>
            /\ feature_statistics # None
            /\ f \in DOMAIN feature_statistics
            /\ feature_statistics[f].count = 1
            /\ feature_statistics[f].std2 = <<1, 1>>

\* C10 witness: humidity was in one update, with the value 10, temp in two.
C10_Witness ==
    /\ seen["humidity"] = <<1, 10, 100>>
    /\ seen["temp"][1] = 2
    /\ feature_statistics["humidity"].count = 1
    /\ feature_statistics["humidity"].mean = <<10, 1>>

\* C11: a feature that exactly two update calls contained, with the values v1 and
\* v2, has count 2, mean (v1 + v2) / 2, sum of squared deviations (v1 - v2)^2 / 2
\* and std |v1 - v2| / sqrt(2) (std^2 = (v1 - v2)^2 / 2); and no sum of squared
\* deviations in the store is ever negative.
C11_SecondUpdate ==
    /\ \A f \in ModelFeatures : \A v1, v2 \in MonitorValues :
          seen[f] = <<2, v1 + v2, v1 * v1 + v2 * v2>> =>
              /\ feature_statistics # None
              /\ f \in DOMAIN feature_statistics
              /\ feature_statistics[f].count = 2
              /\ feature_statistics[f].mean = Rat(v1 + v2, 2)
              /\ feature_statistics[f].sum_sq = Rat((v1 - v2) * (v1 - v2), 2)
              /\ feature_statistics[f].std2 = Rat((v1 - v2) * (v1 - v2), 2)
    /\ feature_statistics # None =>
          \A f \in DOMAIN feature_statistics :
              /\ feature_statistics[f].sum_sq[1] >= 0
              /\ feature_statistics[f].sum_sq[2] > 0

\* C11 witness: temp was in two updates, with -3 and 10: mean 7/2, sum of squared
\* deviations 169/2.
C11_Witness ==
    /\ seen["temp"] = <<2, 7, 109>>
    /\ feature_statistics["temp"].count = 2
    /\ feature_statistics["temp"].mean = <<7, 2>>
    /\ feature_statistics["temp"].sum_sq = <<169, 2>>
    /\ feature_statistics["temp"].std2 = <<169, 2>>

\* C12: a POST /predict that passes validation and whose prediction raises
\* (answered 500) leaves the statistics store as the request found it.
C12_FailedPredictionLeavesStore ==
    [][(PredictStep /\ response'.status = 500) => UNCHANGED feature_statistics]_vars

\* C13: detect_data_drift names a feature only if the feature's count is at least
\* 1 and abs(value - mean) > 3 * std holds for its stored mean and std (a zeroed
\* entry, count 0, is never named); the ratio is the number of named features over
\* the number of expected features, between 0 and 1; drift is detected exactly when
\* some feature is named.
C13_FlaggedOnlyWithHistory ==
    [][DetectStep =>
          LET verdict == last'.verdict
              named   == Range(verdict.drift_features)
          IN  /\ \A f \in named :
                    /\ feature_statistics # None
                    /\ f \in DOMAIN feature_statistics
                    /\ f \in DOMAIN last'.features
                    /\ feature_statistics[f].count >= 1
                    /\ LET dev == RSub(RInt(last'.features[f]), feature_statistics[f].mean)
                       IN  RLt(RMul(RInt(9), feature_statistics[f].std2), RMul(dev, dev))
              /\ verdict.drift_ratio =
                    IF NamesFalsy(feature_names) THEN <<0, 1>>
                    ELSE Rat(Cardinality(named), Len(feature_names))
              /\ ~RLt(verdict.drift_ratio, <<0, 1>>)
              /\ ~RLt(<<1, 1>>, verdict.drift_ratio)
              /\ verdict.drift_detected <=> named # {}]_vars

\* C14: a feature whose stored std is 0 is not named by detect_data_drift,
\* whatever its value in the map, and its drift counter is not incremented.
C14_ConstantFeatureSuppressed ==
    [][(DetectStep /\ feature_statistics # None) =>
          \A f \in DOMAIN feature_statistics :
              feature_statistics[f].std2 = <<0, 1>> =>
                  /\ f \notin Range(last'.verdict.drift_features)
                  /\ DATA_DRIFT_DETECTIONS'[f] = DATA_DRIFT_DETECTIONS[f]]_vars

\* C14 witness: temp was 0 in two updates (std 0), then a map with temp 10 was
\* classified and temp was not named.
C14_Witness ==
    /\ last.op = "detect"
    /\ seen["temp"] = <<2, 0, 0>>
    /\ feature_statistics["temp"].std2 = <<0, 1>>
    /\ feature_statistics["temp"].count = 2
    /\ "temp" \in DOMAIN last.features
    /\ last.features["temp"] = 10
    /\ "temp" \notin Range(last.verdict.drift_features)
    /\ DATA_DRIFT_DETECTIONS["temp"] = 0

Validated == BagCardinality(DRIFT_RATIO)

\* count of feature f in a store, 0 while there is no store.
CountIn(store, f) == IF store = None THEN 0 ELSE store[f].count

\* C16: with a model loaded and its features known, the store is absent or holds
\* exactly one entry per expected feature; all entries have the same count, the
\* number of requests that passed feature validation; a request that passes raises
\* every count by 1, and no count ever decreases.
C16_CountsAreValidatedRequests ==
    [][(model' # None /\ ~NamesFalsy(feature_names')) =>
          /\ feature_statistics' = None => Validated' = 0
          /\ feature_statistics' # None
                => /\ DOMAIN feature_statistics' = Range(feature_names')
                   /\ \A f \in Range(feature_names') :
                         feature_statistics'[f].count = Validated'
          /\ feature_statistics # None
                => /\ feature_statistics' # None
                   /\ \A f \in DOMAIN feature_statistics :
                         feature_statistics'[f].count >= feature_statistics[f].count
          /\ (model # None /\ PredictStep)
                => \A f \in Range(feature_names') :
                      CountIn(feature_statistics', f) =
                          CountIn(feature_statistics, f)
                              + (IF response'.status \in {200, 500} THEN 1 ELSE 0)]_vars

\* C16 witness: two requests passed validation (one of them answered 500) and a
\* third was answered 400; both counts are 2.
C16_Witness ==
    /\ model # None
    /\ feature_names = <<"temp", "humidity">>
    /\ nreq = 3
    /\ response.kind = "predict" /\ response.status = 400
    /\ REQUEST_COUNT = [success |-> 1, error |-> 1]
    /\ feature_statistics # None
    /\ feature_statistics["temp"].count = 2
    /\ feature_statistics["humidity"].count = 2

====
